---- MODULE Spec2Model ----
(***************************************************************************)
(* State-machine model of nornir/beta/core/runner.py: the TaskRunner       *)
(* dispatcher (run, async_with_futures, sync_with_futures), the            *)
(* failure-wrapping adapters, the Result data model and with_retries.      *)
(*                                                                         *)
(* Python values are records tagged with a "type" field.  A task is an     *)
(* opaque callback: each of its invocations draws its outcome (a returned  *)
(* plain value, a returned Result, a raised exception) from TaskOutcomes.  *)
(* Every invocation builds fresh objects, as template_file does, so the    *)
(* value, Result or exception of invocation n for host h carries (h, n).   *)
(***************************************************************************)
EXTENDS Integers, Sequences, FiniteSets, TLC

\* ---------------------------------------------------------------- bounds
NumHosts == 2
MaxAttempts == 3
MaxWorkers == 2

\* ------------------------------------------------------ program constants
\* logging levels, by name
INFO == "logging.INFO"
WARNING == "logging.WARNING"

Names == 1..NumHosts
TaskName == "task"

\* Exception classes a task may raise.  ValueError is a subclass of
\* Exception; KeyboardInterrupt derives from BaseException only.
ExcTypes == {"ValueError", "KeyboardInterrupt"}

\* ------------------------------------------------------------ data model
PyNone == [type |-> "NoneType"]

Host(n) == [name |-> n]

\* nornir.inventory.hosts: mapping name -> Host
inventory == [n \in Names |-> Host(n)]

NornirTaskData(h) == [host |-> Host(h), nornir |-> "nornir", name |-> TaskName]

Result(ntd, data, exception) ==
    [type |-> "Result", ntd |-> ntd, data |-> data, sub_results |-> <<>>,
     changed |-> FALSE, diff |-> "", exception |-> exception,
     severity_level |-> INFO]

AggregatedResults == [n \in {} |-> PyNone]

\* the exception object raised by invocation n of the task for host h
Exc(t, h, n) == [type |-> t, host |-> h, n |-> n]

FutureException(exc, ntd) == [type |-> "FutureException", exc |-> exc, ntd |-> ntd]

\* isinstance(e, Exception): what an `except Exception` clause matches
IsException(e) == e.type \in {"ValueError", "FutureException"}

\* outcome of a call: it returns val, or it raises val
Return(v) == [kind |-> "return", val |-> v]
Raise(e) == [kind |-> "raise", val |-> e]
Pending == [kind |-> "pending", val |-> PyNone]

\* --------------------------------------------------------- the task (input)
PlainValue(h, n) == [type |-> "str", host |-> h, n |-> n]

\* a host other than h (h itself when the inventory has one host)
OtherHost(h) == (h % NumHosts) + 1

\* a Result the task builds itself, attributed by the task to host g
TaskResult(g, h, n) ==
    [type |-> "Result", ntd |-> NornirTaskData(g), data |-> PlainValue(h, n),
     sub_results |-> <<PlainValue(h, n)>>, changed |-> TRUE, diff |-> "diff",
     exception |-> PyNone, severity_level |-> WARNING]

TaskOutcomes(h, n) ==
    {Return(PlainValue(h, n))}
      \cup {Return(TaskResult(g, h, n)) : g \in {h, OtherHost(h)}}
      \cup {Raise(Exc(t, h, n)) : t \in ExcTypes}

\* ---------------------------------------------------------------- adapters
\* mutant: a Result built by the task keeps the context the task gave it
_result_wrapper_keepctx(result, ntd) ==
    IF result.type = "Result"
    THEN result
    ELSE Result(ntd, result, PyNone)

\* mutant: the value the task returned is not stored as data
_result_wrapper_nodata(result, ntd) ==
    IF result.type = "Result"
    THEN [result EXCEPT !.ntd = ntd]
    ELSE Result(ntd, PyNone, PyNone)

\* mutant: no isinstance test, whatever the task returned becomes the data
_result_wrapper_rewrap(result, ntd) == Result(ntd, result, PyNone)

_result_wrapper(result, ntd) ==
    IF result.type = "Result"
    THEN [result EXCEPT !.ntd = ntd]
    ELSE Result(ntd, result, PyNone)

\* mutant: a Result returned by the task is passed on as it is
_func_wrapper_skipwrap(o, ntd) ==
    IF o.kind = "return"
    THEN (IF o.val.type = "Result" THEN o ELSE Return(Result(ntd, o.val, PyNone)))
    ELSE IF IsException(o.val)
         THEN Return(Result(ntd, PyNone, o.val))
         ELSE o

\* o is the outcome of func(ntd=ntd, *args, **kwargs)
_func_wrapper(o, ntd) ==
    IF o.kind = "return"
    THEN Return(_result_wrapper(o.val, ntd))
    ELSE IF IsException(o.val)
         THEN Return(Result(ntd, PyNone, o.val))
         ELSE o

\* mutant: no except clause, the task's exception leaves the adapter
_async_func_wrapper_uncaught(o, ntd) ==
    IF o.kind = "return"
    THEN Return(_result_wrapper(o.val, ntd))
    ELSE o

\* o is the outcome of await func(ntd, *args, **kwargs)
_async_func_wrapper(o, ntd) ==
    IF o.kind = "return"
    THEN Return(_result_wrapper(o.val, ntd))
    ELSE IF IsException(o.val)
         THEN Return(Result(ntd, PyNone, o.val))
         ELSE o

\* o is the outcome of await task(ntd, **kwargs)
_futures_wrapper(o, ntd) ==
    IF o.kind = "return"
    THEN o
    ELSE IF IsException(o.val)
         THEN Raise(FutureException(o.val, ntd))
         ELSE o

\* mutant: the exception is re-raised at the last attempt (i = attempts)
sync_wrapper_lastattempt(attempts, i, o) ==
    IF o.kind = "return"
    THEN [attempt |-> i, done |-> TRUE, out |-> o]
    ELSE IF ~IsException(o.val)
         THEN [attempt |-> i, done |-> TRUE, out |-> o]
         ELSE IF i = attempts
              THEN [attempt |-> i, done |-> TRUE, out |-> o]
              ELSE [attempt |-> i, done |-> FALSE, out |-> Pending]

\* mutant: the value of a successful attempt is stored and returned after the
\* loop, without leaving the loop
async_wrapper_noreturn(attempts, i, o) ==
    IF o.kind = "raise" /\ ~IsException(o.val)
    THEN [attempt |-> i, done |-> TRUE, out |-> o]
    ELSE IF o.kind = "raise" /\ i + 1 = attempts
         THEN [attempt |-> i, done |-> TRUE, out |-> o]
         ELSE IF i = attempts
              THEN [attempt |-> i, done |-> TRUE,
                    out |-> IF o.kind = "return" THEN o ELSE Return(PyNone)]
              ELSE [attempt |-> i, done |-> FALSE, out |-> Pending]

\* mutant: the loop counts from 0, range(attempts), and passes attempt = i
sync_wrapper_zerobased(attempts, i, o) ==
    IF o.kind = "return"
    THEN [attempt |-> i - 1, done |-> TRUE, out |-> o]
    ELSE IF ~IsException(o.val)
         THEN [attempt |-> i - 1, done |-> TRUE, out |-> o]
         ELSE IF i + 1 = attempts
              THEN [attempt |-> i - 1, done |-> TRUE, out |-> o]
              ELSE IF i = attempts
                   THEN [attempt |-> i - 1, done |-> TRUE, out |-> Return(PyNone)]
                   ELSE [attempt |-> i - 1, done |-> FALSE, out |-> Pending]

\* ------------------------------------------------------------ with_retries
\* One iteration of the loop `for i in range(1, attempts + 1)`: func was
\* called with attempt=i and had outcome o.  done: the wrapper terminates
\* with outcome out; otherwise the loop goes on with i + 1.
sync_wrapper(attempts, i, o) ==
    IF o.kind = "return"
    THEN [attempt |-> i, done |-> TRUE, out |-> o]
    ELSE IF ~IsException(o.val)
         THEN [attempt |-> i, done |-> TRUE, out |-> o]
         ELSE IF i + 1 = attempts
              THEN [attempt |-> i, done |-> TRUE, out |-> o]
              ELSE IF i = attempts
                   THEN [attempt |-> i, done |-> TRUE, out |-> Return(PyNone)]
                   ELSE [attempt |-> i, done |-> FALSE, out |-> Pending]

async_wrapper(attempts, i, o) ==
    IF o.kind = "return"
    THEN [attempt |-> i, done |-> TRUE, out |-> o]
    ELSE IF ~IsException(o.val)
         THEN [attempt |-> i, done |-> TRUE, out |-> o]
         ELSE IF i + 1 = attempts
              THEN [attempt |-> i, done |-> TRUE, out |-> o]
              ELSE IF i = attempts
                   THEN [attempt |-> i, done |-> TRUE, out |-> Return(PyNone)]
                   ELSE [attempt |-> i, done |-> FALSE, out |-> Pending]

\* with_retries.__call__: the wrapper matching the task's calling convention
with_retries(coro, attempts, i, o) ==
    IF coro THEN async_wrapper(attempts, i, o)
            ELSE sync_wrapper(attempts, i, o)

\* mutant: the adapter calls an undecorated task again after a first exception
CallTask_reinvoke(t, i, o) ==
    IF t.decorated
    THEN with_retries(t.coro, t.attempts, i, o)
    ELSE IF o.kind = "raise" /\ IsException(o.val) /\ i = 1
         THEN [attempt |-> 0, done |-> FALSE, out |-> Pending]
         ELSE [attempt |-> 0, done |-> TRUE, out |-> o]

\* One call of the underlying function by the task callable t given to the
\* runner: through the retry loop when t is decorated, else directly (a
\* single call, without the attempt keyword: attempt 0 stands for none).
CallTask(t, i, o) ==
    IF t.decorated
    THEN with_retries(t.coro, t.attempts, i, o)
    ELSE [attempt |-> 0, done |-> TRUE, out |-> o]

\* ------------------------------------------------------------- TaskRunner
RECURSIVE SelectFrom(_, _)
\* for name, host in nornir.inventory.hosts.items(): if <keep>: append(host)
SelectFrom(n, keep) ==
    IF n > NumHosts THEN <<>>
    ELSE (IF n \in keep THEN <<inventory[n]>> ELSE <<>>) \o SelectFrom(n + 1, keep)

\* mutant: the on_failed loop appends every host, without the membership test
SelectHosts_unfiltered(good, failed, fh) ==
    (IF good THEN SelectFrom(1, Names \ fh) ELSE <<>>)
      \o (IF failed THEN SelectFrom(1, Names) ELSE <<>>)

SelectHosts(good, failed, fh) ==
    (IF good THEN SelectFrom(1, Names \ fh) ELSE <<>>)
      \o (IF failed THEN SelectFrom(1, Names \cap fh) ELSE <<>>)

Put(f, k, v) == [x \in DOMAIN f \cup {k} |-> IF x = k THEN v ELSE f[x]]

RECURSIVE Aggregate(_, _)
\* for r in result: agg_results[r.ntd.host.name] = r
Aggregate(result, a) ==
    IF result = <<>> THEN a
    ELSE Aggregate(Tail(result), Put(a, Head(result).ntd.host.name, Head(result)))

VARIABLES
    failed_hosts,   \* nornir.data.failed_hosts
    phase,          \* caller: "new", "ready", "blocked", "returned", "raised"
    task,           \* self.task: [coro, decorated, attempts]
    on_good,        \* constructor arguments
    on_failed,
    hosts,          \* self.hosts
    num_workers,    \* self.num_workers
    entry,          \* entry point called: "none", "run", "async_with_futures", "sync_with_futures"
    queue,          \* submitted invocations not yet started, in order
    pc,             \* per target: "idle", "queued", "running", "hung", "done", "dead"
    worker,         \* per target: the pool worker executing its invocation, 0 for none
    log,            \* per target: the invocations of the underlying task
    out,            \* per target: outcome of the task callable given to the runner
    res,            \* per target: outcome of the adapter (AsyncResult / future)
    fs,             \* deferred entry points: targets holding a pending handle
    agg,            \* the AggregatedResults returned by run()
    raised          \* the exception run() raised, if any

vars == <<failed_hosts, phase, task, on_good, on_failed, hosts, num_workers,
          entry, queue, pc, worker, log, out, res, fs, agg, raised>>

HostNames(hs) == {hs[i].name : i \in 1..Len(hs)}
Selected == HostNames(hosts)

Init ==
    /\ failed_hosts \in SUBSET Names
    /\ phase = "new"
    /\ task = [coro |-> FALSE, decorated |-> FALSE, attempts |-> 1]
    /\ on_good = TRUE
    /\ on_failed = FALSE
    /\ hosts = <<>>
    /\ num_workers = 1
    /\ entry = "none"
    /\ queue = <<>>
    /\ pc = [n \in Names |-> "idle"]
    /\ worker = [n \in Names |-> 0]
    /\ log = [n \in Names |-> <<>>]
    /\ out = [n \in Names |-> Pending]
    /\ res = [n \in Names |-> Pending]
    /\ fs = {}
    /\ agg = AggregatedResults
    /\ raised = PyNone

\* TaskRunner.__init__
NewRunner(Decorated, Flags) ==
    /\ \E c \in BOOLEAN, d \in Decorated, a \in 1..MaxAttempts,
          g \in BOOLEAN, f \in BOOLEAN, w \in 1..MaxWorkers:
         /\ <<g, f>> \in Flags
         /\ d \/ a = 1
         /\ c => w = 1    \* num_workers is read by the pool modes only
         /\ task' = [coro |-> c, decorated |-> d, attempts |-> a]
         /\ on_good' = g
         /\ on_failed' = f
         /\ num_workers' = w
         /\ hosts' = SelectHosts(g, f, failed_hosts)
    /\ phase' = "ready"
    /\ UNCHANGED <<failed_hosts, entry, queue, pc, worker, log, out, res, fs, agg, raised>>

\* the first TaskRunner is constructed
Construct == phase = "new" /\ NewRunner(BOOLEAN, BOOLEAN \X BOOLEAN)

\* the first TaskRunner, with the default on_good=True, on_failed=False
ConstructDefault == phase = "new" /\ NewRunner(BOOLEAN, {<<TRUE, FALSE>>})

\* the first TaskRunner, for a task without the retry decorator
ConstructPlain == phase = "new" /\ NewRunner({FALSE}, BOOLEAN \X BOOLEAN)

\* another TaskRunner is constructed for a following dispatch
Reconstruct == phase = "ready" /\ NewRunner({FALSE}, BOOLEAN \X BOOLEAN)

\* every target of self.hosts gets one invocation, submitted in list order
Submit ==
    /\ queue' = [i \in 1..Len(hosts) |-> hosts[i].name]
    /\ pc' = [n \in Names |-> IF n \in Selected THEN "queued" ELSE pc[n]]

\* TaskRunner.run, up to the point where it blocks in _run_sync / _run_async
CallRun ==
    /\ phase = "ready"
    /\ entry' = "run"
    /\ phase' = "blocked"
    /\ Submit
    /\ UNCHANGED <<failed_hosts, task, on_good, on_failed, hosts, num_workers,
                   worker, log, out, res, fs, agg, raised>>

\* TaskRunner.async_with_futures (a cooperative task)
CallAsyncWithFutures ==
    /\ phase = "ready"
    /\ task.coro
    /\ entry' = "async_with_futures"
    /\ phase' = "returned"
    /\ Submit
    /\ fs' = Selected
    /\ UNCHANGED <<failed_hosts, task, on_good, on_failed, hosts, num_workers,
                   worker, log, out, res, agg, raised>>

\* TaskRunner.sync_with_futures (a blocking task)
CallSyncWithFutures ==
    /\ phase = "ready"
    /\ ~task.coro
    /\ entry' = "sync_with_futures"
    /\ phase' = "returned"
    /\ Submit
    /\ fs' = Selected
    /\ UNCHANGED <<failed_hosts, task, on_good, on_failed, hosts, num_workers,
                   worker, log, out, res, agg, raised>>

\* invocations make progress while run() blocks, or after a deferred entry
\* point handed out the handles
InFlight ==
    \/ entry = "run" /\ phase = "blocked"
    \/ entry \in {"async_with_futures", "sync_with_futures"} /\ phase = "returned"

\* invocations that started and have not ended; a hung one never ends
Running == {n \in Names : pc[n] \in {"running", "hung"}}

\* mutant: the pool hands a job to a worker that is executing another one
FreeWorkers_busy == 1..num_workers

\* Pool(processes=num_workers) / ThreadPoolExecutor(max_workers=num_workers):
\* the workers that are not executing an invocation
FreeWorkers == (1..num_workers) \ {worker[n] : n \in Running}

\* mutant: the scheduler preempts an invocation that does not yield
LoopFree_preemptive == TRUE

\* loop.run_until_complete: the single thread of the event loop runs another
\* coroutine only when the current one yields or ends; an invocation that
\* never yields keeps the thread.  Pool workers do not wait for each other.
LoopFree == ~task.coro \/ \A n \in Names : pc[n] # "hung"

\* A pool worker takes the next job of the queue; the event loop starts the
\* next coroutine it was given.  The workers of a pool are interchangeable:
\* the free worker with the lowest number stands for whichever takes the job.
Start ==
    /\ InFlight
    /\ LoopFree
    /\ queue # <<>>
    /\ pc' = [pc EXCEPT ![Head(queue)] = "running"]
    /\ IF task.coro
       THEN UNCHANGED worker
       ELSE \E w \in FreeWorkers :
                /\ \A v \in FreeWorkers : w <= v
                /\ worker' = [worker EXCEPT ![Head(queue)] = w]
    /\ queue' = Tail(queue)
    /\ UNCHANGED <<failed_hosts, phase, task, on_good, on_failed, hosts,
                   num_workers, entry, log, out, res, fs, agg, raised>>

\* The task's invocation for target h never returns (and, in a coroutine,
\* never yields): the dispatcher has no timeout and no cancellation.
Hang(h) ==
    /\ InFlight
    /\ LoopFree
    /\ pc[h] = "running"
    /\ pc' = [pc EXCEPT ![h] = "hung"]
    /\ UNCHANGED <<failed_hosts, phase, task, on_good, on_failed, hosts,
                   num_workers, entry, queue, worker, log, out, res, fs, agg,
                   raised>>

\* the adapter the entry point runs the task in
Adapter(o, ntd) ==
    IF entry = "async_with_futures" THEN _futures_wrapper(o, ntd)
    ELSE IF entry = "sync_with_futures" THEN _func_wrapper(o, ntd)
    ELSE IF task.coro THEN _async_func_wrapper(o, ntd)
    ELSE _func_wrapper(o, ntd)

\* One invocation of the underlying task for target h, and what the retry
\* wrapper and the adapter do with its outcome.
TaskStep(h) ==
    /\ InFlight
    /\ LoopFree
    /\ pc[h] = "running"
    /\ \E o \in TaskOutcomes(h, Len(log[h]) + 1):
         LET w == CallTask(task, Len(log[h]) + 1, o)
             a == Adapter(w.out, NornirTaskData(h))
         IN /\ log' = [log EXCEPT ![h] = Append(@, [attempt |-> w.attempt, out |-> o])]
            /\ IF ~w.done
               THEN UNCHANGED <<pc, worker, out, res, phase, raised>>
               ELSE /\ out' = [out EXCEPT ![h] = w.out]
                    /\ worker' = [worker EXCEPT ![h] = 0]
                    /\ IF a.kind = "return" \/ entry # "run"
                       THEN \* the AsyncResult / future holds the outcome
                            /\ res' = [res EXCEPT ![h] = a]
                            /\ pc' = [pc EXCEPT ![h] = "done"]
                            /\ UNCHANGED <<phase, raised>>
                       ELSE IF task.coro
                       THEN \* the exception leaves loop.run_until_complete
                            /\ res' = [res EXCEPT ![h] = a]
                            /\ pc' = [pc EXCEPT ![h] = "done"]
                            /\ phase' = "raised"
                            /\ raised' = a.val
                       ELSE \* the pool's worker thread dies, the job is never set
                            /\ pc' = [pc EXCEPT ![h] = "dead"]
                            /\ UNCHANGED <<res, phase, raised>>
    /\ UNCHANGED <<failed_hosts, task, on_good, on_failed, hosts, num_workers,
                   entry, queue, fs, agg>>

\* mutant: run() returns as soon as one invocation is done, with what is there
ReturnRun_early ==
    /\ entry = "run"
    /\ phase = "blocked"
    /\ \E n \in Selected : pc[n] = "done"
    /\ LET ready == SelectSeq(hosts, LAMBDA x : pc[x.name] = "done")
       IN agg' = Aggregate([i \in 1..Len(ready) |-> res[ready[i].name].val],
                           AggregatedResults)
    /\ phase' = "returned"
    /\ UNCHANGED <<failed_hosts, task, on_good, on_failed, hosts, num_workers,
                   entry, queue, pc, worker, log, out, res, fs, raised>>

\* mutant: run() records the targets whose Result is a failure as failed
ReturnRun_marks ==
    /\ entry = "run"
    /\ phase = "blocked"
    /\ \A n \in Selected : pc[n] = "done"
    /\ agg' = Aggregate([i \in 1..Len(hosts) |-> res[hosts[i].name].val],
                        AggregatedResults)
    /\ failed_hosts' = failed_hosts \cup
                         {n \in Selected : res[n].val.exception # PyNone}
    /\ phase' = "returned"
    /\ UNCHANGED <<task, on_good, on_failed, hosts, num_workers,
                   entry, queue, pc, worker, log, out, res, fs, raised>>

\* TaskRunner.run, from pool.join() / gather's completion to the return
ReturnRun ==
    /\ entry = "run"
    /\ phase = "blocked"
    /\ \A n \in Selected : pc[n] = "done"
    /\ agg' = Aggregate([i \in 1..Len(hosts) |-> res[hosts[i].name].val],
                        AggregatedResults)
    /\ phase' = "returned"
    /\ UNCHANGED <<failed_hosts, task, on_good, on_failed, hosts, num_workers,
                   entry, queue, pc, worker, log, out, res, fs, raised>>

Next ==
    \/ Construct
    \/ CallRun
    \/ CallAsyncWithFutures
    \/ CallSyncWithFutures
    \/ Start
    \/ \E h \in Names : TaskStep(h)
    \/ \E h \in Names : Hang(h)
    \/ ReturnRun

Spec == Init /\ [][Next]_vars

\* A collaborator (the core has no such operation) marks target n failed in
\* nornir.data.failed_hosts, while no dispatch is in flight.
Mark(n) ==
    /\ phase = "ready"
    /\ n \notin failed_hosts
    /\ failed_hosts' = failed_hosts \cup {n}
    /\ UNCHANGED <<phase, task, on_good, on_failed, hosts, num_workers, entry,
                   queue, pc, worker, log, out, res, fs, agg, raised>>

\* The caller is done with what run() gave it (the aggregate, or the
\* exception); the TaskRunner stays and run() can be called on it again.
Release ==
    /\ entry = "run"
    /\ phase \in {"returned", "raised"}
    /\ phase' = "ready"
    /\ entry' = "none"
    /\ queue' = <<>>
    /\ pc' = [n \in Names |-> "idle"]
    /\ worker' = [n \in Names |-> 0]
    /\ log' = [n \in Names |-> <<>>]
    /\ out' = [n \in Names |-> Pending]
    /\ res' = [n \in Names |-> Pending]
    /\ agg' = AggregatedResults
    /\ raised' = PyNone
    /\ UNCHANGED <<failed_hosts, task, on_good, on_failed, hosts, num_workers, fs>>

\* The core together with its caller over several dispatches and with the
\* collaborator that owns the failed set.  The tasks are undecorated: with_retries
\* closes over `attempts` alone and has no access to the runner or the failed set.
NextCollab ==
    \/ ConstructPlain
    \/ CallRun
    \/ CallAsyncWithFutures
    \/ CallSyncWithFutures
    \/ Start
    \/ \E h \in Names : Hang(h)
    \/ \E h \in Names : TaskStep(h)
    \/ ReturnRun
    \/ Reconstruct
    \/ Release
    \/ \E n \in Names : Mark(n)

CollabSpec == Init /\ [][NextCollab]_vars

\* run() alone, on a TaskRunner with the default selection flags (the flags
\* decide which targets are in self.hosts and nothing else of a dispatch).
NextRun ==
    \/ ConstructDefault
    \/ CallRun
    \/ Start
    \/ \E h \in Names : TaskStep(h)
    \/ \E h \in Names : Hang(h)
    \/ ReturnRun

RunSpec == Init /\ [][NextRun]_vars

\* The pool's threads and the event loop keep running: a job that a free
\* worker can take is taken, an invocation that does not hang goes on to its
\* end, and run() returns once the pool is joined / gather is complete.
FairSpec ==
    /\ RunSpec
    /\ WF_vars(Start)
    /\ \A h \in Names : WF_vars(TaskStep(h))
    /\ WF_vars(ReturnRun)

\* ------------------------------------------------------------ vocabulary
Deferred == entry \in {"async_with_futures", "sync_with_futures"}
RunReturned == entry = "run" /\ phase = "returned"

\* the task callable given to the runner has terminated for target n
Finished(n) == out[n].kind # "pending"

\* the call raised an exception of the ordinary class (a subclass of
\* Exception), the kind an `except Exception` clause handles
RaisedException(o) == o.kind = "raise" /\ IsException(o.val)

\* the call raised an exception that derives from BaseException only
RaisedBaseOnly(o) == o.kind = "raise" /\ ~IsException(o.val)

\* the data a normal return carries: the value itself, or the data of the
\* Result the task built
ReturnedData(v) == IF v.type = "Result" THEN v.data ELSE v

\* every invocation of the underlying task for n so far raised an Exception
AlwaysRaised(n) ==
    /\ log[n] # <<>>
    /\ \A k \in 1..Len(log[n]) : RaisedException(log[n][k].out)

\* ------------------------------------------------------------------ claims

\* C1: when run() returns, in either execution mode and whatever each target's
\* task did (returned a plain value, returned a Result, raised), the keys of
\* the aggregate are exactly the names of the selected targets, one entry per
\* selected target and none for an excluded one.
C1_AggregateKeys ==
    RunReturned =>
        /\ DOMAIN agg = Selected
        /\ Cardinality(DOMAIN agg) = Len(hosts)

\* a returned dispatch over two targets: one raised, the other returned a
\* Result that the task had attributed to the first
C1_Witness ==
    /\ RunReturned
    /\ \E a \in Selected, b \in Selected :
         /\ a # b
         /\ RaisedException(out[a])
         /\ out[b].kind = "return"
         /\ out[b].val.type = "Result"
         /\ out[b].val.ntd.host.name = a

\* C2: in a blocking dispatch, under every interleaving, a task that raises an
\* exception for target a and returns for target b leaves b's entry with
\* failure unset and b's returned data and a's entry with failure set to the
\* exception a raised; run() itself does not raise and no worker is lost.
\* (Raising is raising an Exception; run() raises or loses a worker only when
\* a task raised an exception that derives from BaseException alone.)
C2_FailureIsolation ==
    entry = "run" =>
        /\ phase = "raised" => \E n \in Selected : RaisedBaseOnly(out[n])
        /\ \A n \in Names : pc[n] = "dead" => RaisedBaseOnly(out[n])
        /\ phase = "returned" =>
             \A a \in Selected, b \in Selected :
                 out[a].kind = "raise" /\ out[b].kind = "return" =>
                     /\ agg[b].exception = PyNone
                     /\ agg[b].data = ReturnedData(out[b].val)
                     /\ agg[a].exception = out[a].val
                     /\ agg[a].data = PyNone

C2_Witness ==
    /\ RunReturned
    /\ \E a \in Selected, b \in Selected :
         /\ RaisedException(out[a])
         /\ out[b].kind = "return"
         /\ agg[a].exception = out[a].val
         /\ agg[b].exception = PyNone

\* C3: in a blocking dispatch an exception of any kind raised by the task for
\* a target, also one that is no subclass of Exception, becomes that target's
\* Result with failure set to it and data empty; it never leaves run() and
\* never keeps another target's invocation from completing.
C3_AnyExceptionContained ==
    entry = "run" =>
        /\ phase # "raised"
        /\ \A n \in Names :
             out[n].kind = "raise" =>
                 /\ pc[n] = "done"
                 /\ res[n] = Return(Result(NornirTaskData(n), PyNone, out[n].val))

\* the targets the selection rule of the dispatcher names
Eligible(good, failed, fh) ==
    (IF good THEN {n \in Names : n \notin fh} ELSE {})
      \cup (IF failed THEN {n \in Names : n \in fh} ELSE {})

\* C4: the selected targets are the inventory targets outside the failed set
\* (when on_good) together with those inside it (when on_failed); no target is
\* selected twice; both flags select the whole inventory; no flag selects
\* nothing and run() then returns an aggregate without entries.
C4_TargetSubset ==
    phase # "new" =>
        /\ Selected = Eligible(on_good, on_failed, failed_hosts)
        /\ Cardinality(Selected) = Len(hosts)
        /\ on_good /\ on_failed => Selected = Names
        /\ ~on_good /\ ~on_failed =>
             /\ hosts = <<>>
             /\ phase # "raised"
             /\ RunReturned => DOMAIN agg = {}

\* a dispatch with both flags over an inventory that has failed and good
\* targets has returned
C4_Witness ==
    /\ RunReturned
    /\ on_good /\ on_failed
    /\ failed_hosts # {} /\ failed_hosts # Names
    /\ DOMAIN agg = Names

\* C5: for every positive attempts, a with_retries task whose every
\* invocation raises ends by raising the task's exception, never by returning;
\* a blocking dispatch of it gives every target a Result with failure set.
C5_ExhaustionRaises ==
    \A n \in Names :
        task.decorated /\ Finished(n) /\ AlwaysRaised(n) =>
            /\ out[n].kind = "raise"
            /\ RunReturned => agg[n].exception # PyNone

\* C6: with_retries(3) on a task that always raises invokes it exactly twice,
\* with attempt 1 and then 2, and raises the exception of the second
\* invocation; in general an exception at attempt i with i + 1 = attempts
\* leaves the wrapper at once and attempt i + 1 is never made.
C6_RetryBoundary ==
    \A n \in Names :
        task.decorated =>
            /\ task.attempts = 3 /\ Finished(n) /\ AlwaysRaised(n) =>
                 /\ Len(log[n]) = 2
                 /\ log[n][1].attempt = 1
                 /\ log[n][2].attempt = 2
                 /\ out[n] = log[n][2].out
            /\ \A i \in 1..Len(log[n]) :
                 log[n][i].out.kind = "raise" /\ i + 1 = task.attempts =>
                     /\ Len(log[n]) = i
                     /\ out[n] = log[n][i].out

C6_Witness ==
    \E n \in Names :
        /\ task.decorated
        /\ task.attempts = 3
        /\ AlwaysRaised(n)
        /\ Len(log[n]) = 2
        /\ out[n] = Raise(Exc("ValueError", n, 2))

\* C7: in one call of a with_retries task, once an invocation returns at
\* attempt k the wrapper returns that invocation's value and the task is not
\* invoked again: it was invoked exactly k times.
C7_SuccessStops ==
    \A n \in Names :
        task.decorated =>
            \A k \in 1..Len(log[n]) :
                log[n][k].out.kind = "return" =>
                    /\ Len(log[n]) = k
                    /\ log[n][k].attempt = k
                    /\ out[n] = log[n][k].out

\* with_retries(3): the first invocation raised, the second returned
C7_Witness ==
    \E n \in Names :
        /\ task.decorated
        /\ task.attempts = 3
        /\ Len(log[n]) = 2
        /\ RaisedException(log[n][1].out)
        /\ log[n][2].out.kind = "return"
        /\ out[n] = log[n][2].out

\* C8: on both deferred entry points an exception the task raises for a target
\* is not turned into a Result: the target's handle raises FutureException
\* carrying that exception and the target's invocation context.
C8_DeferredRaises ==
    Deferred =>
        \A n \in Names :
            pc[n] = "done" /\ RaisedException(out[n]) =>
                res[n] = Raise(FutureException(out[n].val, NornirTaskData(n)))

\* C9: a deferred dispatch hands out one handle per selected target, and a
\* handle whose task invocation returned resolves to a Result; a plain value v
\* arrives as a Result with data v and the target's context, on both deferred
\* entry points.
C9_DeferredResult ==
    Deferred =>
        /\ fs = Selected
        /\ Cardinality(fs) = Len(hosts)
        /\ \A n \in Names :
             pc[n] = "done" /\ out[n].kind = "return" =>
                 /\ res[n].kind = "return"
                 /\ res[n].val.type = "Result"
                 /\ out[n].val.type # "Result" =>
                      res[n].val = Result(NornirTaskData(n), out[n].val, PyNone)

\* C10: a task that returns a plain value v for target n in a blocking
\* dispatch gives n the entry Result(data = v, failure unset, no sub_results,
\* context.host = n).
C10_PlainValueWrapped ==
    RunReturned =>
        \A n \in Selected :
            out[n].kind = "return" /\ out[n].val.type # "Result" =>
                /\ n \in DOMAIN agg
                /\ agg[n].type = "Result"
                /\ agg[n].data = out[n].val
                /\ agg[n].exception = PyNone
                /\ agg[n].sub_results = <<>>
                /\ agg[n].ntd.host = inventory[n]

C10_Witness ==
    /\ RunReturned
    /\ \E n \in Selected :
         /\ ~task.decorated
         /\ out[n] = Return(PlainValue(n, 1))
         /\ agg[n].data = PlainValue(n, 1)

\* C11: when the task returns a Result, the dispatcher replaces its context
\* by the context of the invocation, also when the task had put another one,
\* and leaves data, sub_results, changed, diff, failure and severity as the
\* task set them; re-attributing once more to the same context changes nothing.
C11_Reattribution ==
    entry = "run" =>
        \A n \in Names :
            pc[n] = "done" /\ out[n].kind = "return" /\ out[n].val.type = "Result" =>
                /\ res[n].kind = "return"
                /\ res[n].val.ntd = NornirTaskData(n)
                /\ res[n].val.data = out[n].val.data
                /\ res[n].val.sub_results = out[n].val.sub_results
                /\ res[n].val.changed = out[n].val.changed
                /\ res[n].val.diff = out[n].val.diff
                /\ res[n].val.exception = out[n].val.exception
                /\ res[n].val.severity_level = out[n].val.severity_level
                /\ _result_wrapper(res[n].val, NornirTaskData(n)) = res[n].val
                /\ RunReturned => n \in DOMAIN agg /\ agg[n] = res[n].val

\* the task returned a Result it had attributed to another host
C11_Witness ==
    /\ RunReturned
    /\ \E n \in Selected :
         /\ OtherHost(n) # n
         /\ out[n] = Return(TaskResult(OtherHost(n), n, 1))
         /\ agg[n].ntd.host.name = n
         /\ agg[n].changed

\* C12: in one call of a with_retries task the n-th invocation of the
\* underlying task receives attempt = n (1 first, then one more each time),
\* in the blocking and in the cooperative wrapper, and the task is invoked at
\* most `attempts` times.
C12_AttemptNumbers ==
    \A n \in Names :
        task.decorated =>
            /\ Len(log[n]) <= task.attempts
            /\ \A k \in 1..Len(log[n]) : log[n][k].attempt = k

C12_Witness ==
    \E n \in Names :
        /\ task.decorated
        /\ Len(log[n]) >= 2
        /\ log[n][1].attempt = 1
        /\ log[n][2].attempt = 2
        /\ Finished(n)

\* C14: in a blocking dispatch of a task without retry wrapper the task is
\* invoked exactly once for every selected target and never for an excluded
\* one, whether the invocation returns or raises: nothing is invoked again
\* after a failure, and at the return of run() every selected target has had
\* its one invocation.
C14_OnceEach ==
    entry = "run" /\ ~task.decorated =>
        \A n \in Names :
            /\ Len(log[n]) <= 1
            /\ n \notin Selected => log[n] = <<>>
            /\ pc[n] \in {"done", "dead"} => Len(log[n]) = 1
            /\ RunReturned /\ n \in Selected => Len(log[n]) = 1 /\ pc[n] = "done"

\* a returned dispatch with an excluded target and a selected one that raised
C14_Witness ==
    /\ RunReturned
    /\ ~task.decorated
    /\ \E a \in Selected, b \in Names \ Selected :
         /\ RaisedException(out[a])
         /\ Len(log[a]) = 1
         /\ log[b] = <<>>

\* the Result the dispatcher owes target n for the outcome o of its task
Owed(o, n) ==
    IF o.kind = "raise" THEN Result(NornirTaskData(n), PyNone, o.val)
    ELSE IF o.val.type = "Result" THEN [o.val EXCEPT !.ntd = NornirTaskData(n)]
    ELSE Result(NornirTaskData(n), o.val, PyNone)

\* C15: the aggregate a blocking dispatch returns is a function of the
\* per-target outcomes alone, the same under every completion order and
\* interleaving, and the entry under name n is the Result of n's own
\* invocation (context.host.name = n), also when the task returned a Result.
C15_OrderIndependent ==
    RunReturned =>
        /\ DOMAIN agg = Selected
        /\ \A n \in Selected :
             /\ n \in DOMAIN agg
             /\ agg[n].ntd.host.name = n
             /\ agg[n] = Owed(out[n], n)

\* both targets returned a Result, each attributed by the task to the other
C15_Witness ==
    /\ RunReturned
    /\ Len(hosts) = 2
    /\ \A i \in 1..2 :
         /\ out[hosts[i].name].kind = "return"
         /\ out[hosts[i].name].val.type = "Result"
         /\ out[hosts[i].name].val.ntd.host.name # hosts[i].name

\* C13: when run() has returned the aggregate, in either mode, no invocation
\* of a dispatched target is queued, running or hung: each has terminated and
\* its Result is in the aggregate.  And a run() that is blocked eventually
\* returns, unless an invocation hangs or ends with an exception that is not
\* an Exception (the case of C3).
C13_AllCollected ==
    RunReturned =>
        /\ queue = <<>>
        /\ \A n \in Selected :
             /\ pc[n] = "done"
             /\ Finished(n)
             /\ n \in DOMAIN agg
             /\ agg[n] = res[n].val

C13_RunCompletes ==
    /\ []C13_AllCollected
    /\ (entry = "run" /\ phase = "blocked")
          ~> \/ RunReturned
             \/ \E n \in Names : pc[n] = "hung" \/ RaisedBaseOnly(out[n])

\* a run over every target has returned, one invocation having raised
C13_Witness ==
    /\ RunReturned
    /\ Selected = Names
    /\ \E n \in Names : RaisedException(out[n])
    /\ \E n \in Names : out[n].kind = "return"

\* C16: in the blocking worker-pool mode with budget num_workers, at every
\* moment at most num_workers invocations are executing, each by one worker of
\* the pool that executes nothing else; an invocation keeps its worker from
\* its start to its end, through every retry, and once ended it is never
\* executed again.
C16_Budget ==
    (phase # "new" /\ ~task.coro) =>
        /\ Cardinality(Running) <= num_workers
        /\ \A n \in Running : worker[n] \in 1..num_workers
        /\ \A n \in Names \ Running : worker[n] = 0
        /\ \A m, n \in Running : worker[m] = worker[n] => m = n

C16_SameWorker ==
    \A n \in Names :
        /\ (n \in Running /\ pc'[n] \in {"running", "hung"}) => worker'[n] = worker[n]
        /\ (pc[n] \in {"done", "dead"} /\ phase' # "ready") => pc'[n] = pc[n]

C16_WorkerPool == []C16_Budget /\ [][C16_SameWorker]_vars

\* every worker of the pool is executing, one of them is in a retry, and a
\* job is waiting in the queue
C16_Witness ==
    /\ ~task.coro
    /\ phase = "blocked"
    /\ Cardinality(Running) = num_workers
    /\ queue # <<>>
    /\ \E n \in Running : pc[n] = "running" /\ Len(log[n]) > 0

\* the invocations that hang
Hung == {n \in Names : pc[n] = "hung"}

\* C17: in the blocking worker-pool mode, as long as fewer invocations hang
\* than the pool has workers, the invocation of every dispatched target
\* eventually ends (or is itself one that hangs); in the cooperative mode,
\* once an invocation never yields, no invocation of another target starts,
\* makes an attempt or ends.
C17_PoolProgress ==
    \A n \in Names :
        (entry = "run" /\ ~task.coro /\ phase = "blocked" /\ n \in Selected)
            ~> \/ pc[n] \in {"done", "dead", "hung"}
               \/ Cardinality(Hung) >= num_workers

C17_LoopStarved ==
    (task.coro /\ Hung # {}) => UNCHANGED <<queue, pc, log, out, res, agg, phase>>

C17_Starvation == C17_PoolProgress /\ [][C17_LoopStarved]_vars

\* a pool of two workers: one invocation hangs, the other target's ended
C17_Witness ==
    /\ entry = "run"
    /\ ~task.coro
    /\ Cardinality(Hung) = 1
    /\ Cardinality(Hung) < num_workers
    /\ \E n \in Selected : pc[n] = "done"

\* C18: every step that is not the collaborator's leaves the failed set as
\* it is (the inventory is a constant of the model: no assignment of the core
\* writes it), and with it the selection that on_good=True, on_failed=False
\* gives; so a TaskRunner constructed with these flags after a dispatch of a
\* TaskRunner that had them selects the same targets, unless the collaborator
\* changed the failed set since.
C18_CoreStep ==
    /\ (\A n \in Names : ~Mark(n)) =>
          /\ failed_hosts' = failed_hosts
          /\ SelectHosts(TRUE, FALSE, failed_hosts') = SelectHosts(TRUE, FALSE, failed_hosts)
    /\ ( /\ Reconstruct
         /\ on_good /\ ~on_failed
         /\ on_good' /\ ~on_failed'
         /\ hosts = SelectHosts(TRUE, FALSE, failed_hosts) ) => hosts' = hosts

C18_FailedSetKept == [][C18_CoreStep]_vars

\* run() has returned from a dispatch with on_good=True, on_failed=False in
\* which a task raised, and the target it raised for is still not failed
C18_Witness ==
    /\ RunReturned
    /\ on_good /\ ~on_failed
    /\ \E n \in Selected : RaisedException(out[n]) /\ n \notin failed_hosts

\* C19: the targets of a dispatch are the selection that the flags give on
\* the failed set as it is when the entry point is invoked (the collaborator
\* does not act while a dispatch is in flight, so that is the failed set of
\* every state from the invocation to the return).
C19_SelectionAtDispatch ==
    (phase \notin {"new", "ready"}) =>
        hosts = SelectHosts(on_good, on_failed, failed_hosts)

\* the task of the other calling convention, otherwise the same
OtherTask == [task EXCEPT !.coro = ~task.coro]

\* the outcomes of the invocations made so far for target n, in order
Outcomes(n) == [i \in 1..Len(log[n]) |-> log[n][i].out]

\* The callable t given the per-attempt outcomes outs from call i on: the
\* attempt numbers it passes, and whether and how it ends.
RECURSIVE Replay(_, _, _)
Replay(t, outs, i) ==
    LET w == CallTask(t, i, outs[i])
    IN IF w.done \/ i = Len(outs)
       THEN [attempts |-> <<w.attempt>>, done |-> w.done, out |-> w.out]
       ELSE LET r == Replay(t, outs, i + 1)
            IN [r EXCEPT !.attempts = <<w.attempt>> \o @]

\* what run() of the other mode stores for target n on the same outcomes
OtherResult(n) ==
    LET r == Replay(OtherTask, Outcomes(n), 1)
    IN IF OtherTask.coro THEN _async_func_wrapper(r.out, NornirTaskData(n))
                         ELSE _func_wrapper(r.out, NornirTaskData(n))

====
